---- MODULE Spec2Model ----
(***************************************************************************)
(* Customer churn prediction: the artifact loader (utils.py), its          *)
(* prediction pipeline and the Streamlit script that drives it (app.py).   *)
(*                                                                         *)
(* Numbers.  Probabilities are held in tenths (0.5 is 5, 1.0 is 10); the   *)
(* scaler's standardisation is computed in fixed point with one decimal.   *)
(* Object references are indexes into heap; 0 is None.                     *)
(***************************************************************************)
EXTENDS Integers, Sequences, FiniteSets, TLC

\* ------------------------------------------------------------------ bounds

\* ModelLoader constructions attempted in one run of the model.
MaxLoads == 3
\* predict calls made in one run of the model.
MaxCalls == 3

\* ------------------------------------------------------------- configuration

MODEL_PATH == "model.h5"
LABEL_ENCODER_GENDER_PATH == "label_encoder_gender.pkl"
ONE_HOT_ENCODER_PATH == "OHE.pkl"
SCALER_PATH == "scaler.pkl"

Paths == {MODEL_PATH, LABEL_ENCODER_GENDER_PATH, ONE_HOT_ENCODER_PATH, SCALER_PATH}

\* The order in which _load_all opens the four files.
LoadOrder == <<MODEL_PATH, LABEL_ENCODER_GENDER_PATH, ONE_HOT_ENCODER_PATH, SCALER_PATH>>

\* The literal 0.5 of predict, in tenths.
CHURN_THRESHOLD == 5

\* The bounds of the age slider.
AgeMin == 18
AgeMax == 100

Callers == {1, 2}

\* ------------------------------------------------------------ the artifacts
\* What the four files may hold.  The files are data, not code: a bundle is
\* one possible content of the artifact directory.

GenderClasses == <<"Female", "Male">>
GeoThree == <<"France", "Germany", "Spain">>
GeoTwo == <<"France", "Spain">>

BaseMean == <<650, 0, 40, 5, 0, 2, 0, 0, 50000>>
BaseScale == <<100, 1, 10, 3, 1000, 1, 1, 1, 10000>>

Ones(n) == [i \in 1..n |-> 1]
Zeros(n) == [i \in 1..n |-> 0]

Bundle(cats, scalerGeo, modelWidth, weights) ==
    [model |-> [input_dim |-> modelWidth, weights |-> weights],
     label_encoder_gender |-> [classes_ |-> GenderClasses],
     one_hot_encoder |-> [categories_ |-> cats],
     scaler |-> [mean_ |-> BaseMean \o Zeros(scalerGeo),
                 scale_ |-> BaseScale \o Ones(scalerGeo)]]

\* The scalar outputs a loaded network may emit, in tenths.  A sigmoid output
\* layer stays within 0..10; nothing in the file format forces one.
Outputs == <<-1, 2, 5, 6, 12>>

\* The network files told apart by their weights: as many as there are
\* outputs, so that every row gets every output from one of them.
Weights == 0..(Len(Outputs) - 1)

\* Consistent bundles (three or two fitted geographies, any weights), one whose
\* scaler was fitted on a narrower row, one whose network expects a narrower
\* row.
Bundles ==
    {Bundle(GeoThree, 3, 12, w) : w \in Weights}
        \cup {Bundle(GeoTwo, 2, 11, w) : w \in Weights}
        \cup {Bundle(GeoThree, 2, 11, 0), Bundle(GeoThree, 3, 11, 0)}

\* The bundle of the runs with two callers.
ConcBundles == {Bundle(GeoThree, 3, 12, 0)}

\* ------------------------------------------------------------ input records

AppKeys == <<"geography", "gender", "age", "credit_score", "balance",
             "estimated_salary", "tenure", "num_of_products", "has_cr_card",
             "is_active_member">>

Reverse(s) == [i \in 1..Len(s) |-> s[Len(s) + 1 - i]]

KeyOrders == {AppKeys, Reverse(AppKeys)}

Record(geo, gen, age) ==
    [geography |-> geo, gender |-> gen, age |-> age, credit_score |-> 650,
     balance |-> 0, estimated_salary |-> 50000, tenure |-> 5,
     num_of_products |-> 4, has_cr_card |-> 1, is_active_member |-> 0]

\* The example of the specification, the two ends of the age slider, a
\* geography only the larger encoder was fitted on, and values neither
\* encoder was fitted on.
Records ==
    {Record("France", "Male", 40), Record("Spain", "Female", AgeMin),
     Record("France", "Female", AgeMax), Record("Germany", "Male", AgeMax),
     Record("Italy", "Male", 40), Record("France", "Other", 40),
     Record("Italy", "Other", AgeMin)}

\* A dict: its keys in insertion order and the mapping itself.
Inputs == {[keys |-> ks, val |-> r] : ks \in KeyOrders, r \in Records}

VARIABLES
    disk,           \* [present: the files that can be read, content: a bundle]
    active,         \* the callers that run in this process
    heap,           \* the ModelLoader objects constructed so far
    model_loader,   \* utils._model_loader
    cache_resource, \* what st.cache_resource holds for load_model
    compute_lock,   \* the caller computing load_model under the cache's lock
    pc,             \* where each caller stands
    via,            \* "app": the caller is a run of main(); "lib": it calls utils
    local,          \* the ModelLoader a caller has constructed, before it is stored
    held,           \* the ModelLoader a caller was given
    ui,             \* what the script last showed
    reads,          \* how often each file has been read
    loads,          \* ModelLoader constructions attempted
    history,        \* the first result of predict per record
    lastCall,       \* the latest predict call
    calls           \* predict calls made

vars == <<disk, active, heap, model_loader, cache_resource, compute_lock, pc, via,
          local, held, ui, reads, loads, history, lastCall, calls>>


\* ------------------------------------------------------- the fitted encoders

\* LabelEncoder.transform on one value: its index in classes_, or ValueError.
label_transform(enc, y) ==
    IF \E i \in 1..Len(enc.classes_) : enc.classes_[i] = y
    THEN [ok |-> TRUE, v |-> (CHOOSE i \in 1..Len(enc.classes_) : enc.classes_[i] = y) - 1]
    ELSE [ok |-> FALSE, v |-> 0]

\* Mutant: an encoder that drops its first category (drop='first').
onehot_transform_dropfirst(enc, x) ==
    IF \E i \in 1..Len(enc.categories_) : enc.categories_[i] = x
    THEN [ok |-> TRUE,
          v |-> [i \in 1..(Len(enc.categories_) - 1) |->
                    IF enc.categories_[i + 1] = x THEN 1 ELSE 0]]
    ELSE [ok |-> FALSE, v |-> <<>>]

\* Mutant: an encoder that maps a category it was not fitted on to a row of
\* zeros (handle_unknown='ignore').
onehot_transform_ignore(enc, x) ==
    [ok |-> TRUE,
     v |-> [i \in 1..Len(enc.categories_) |-> IF enc.categories_[i] = x THEN 1 ELSE 0]]

\* OneHotEncoder.transform on one value: one column per fitted category, in
\* the fitted order, or ValueError for a category it was not fitted on.
onehot_transform(enc, x) ==
    IF \E i \in 1..Len(enc.categories_) : enc.categories_[i] = x
    THEN [ok |-> TRUE,
          v |-> [i \in 1..Len(enc.categories_) |-> IF enc.categories_[i] = x THEN 1 ELSE 0]]
    ELSE [ok |-> FALSE, v |-> <<>>]

\* StandardScaler.transform on one row: (x - mean) / scale per column, or
\* ValueError when the row is not as wide as the rows it was fitted on.
scaler_transform(sc, X) ==
    IF Len(X) = Len(sc.mean_)
    THEN [ok |-> TRUE,
          v |-> [j \in 1..Len(X) |-> ((X[j] - sc.mean_[j]) * 10) \div sc.scale_[j]]]
    ELSE [ok |-> FALSE, v |-> <<>>]

\* Mutant: the network run in training mode, its output changing from call
\* to call.
model_predict_training(m, x) ==
    IF Len(x) = m.input_dim
    THEN [ok |-> TRUE, v |-> <<<<Outputs[((calls + m.weights) % Len(Outputs)) + 1]>>>>]
    ELSE [ok |-> FALSE, v |-> <<>>]

RECURSIVE Sum(_)
Sum(s) == IF s = <<>> THEN 0 ELSE Head(s) + Sum(Tail(s))

\* The network on one row: a 1 x 1 array holding its output for that row, a
\* fixed function of the row and of the weights in the file; ValueError when
\* the row has another width than its input layer.
model_predict(m, x) ==
    IF Len(x) = m.input_dim
    THEN [ok |-> TRUE, v |-> <<<<Outputs[((Sum(x) + m.weights) % Len(Outputs)) + 1]>>>>]
    ELSE [ok |-> FALSE, v |-> <<>>]

\* ------------------------------------------------------ ModelLoader.predict

\* input_data[k]
Get(input_data, k) == input_data.val[k]

\* Mutant: Age and Tenure in each other's place.
DataFrame_swapped(input_data, gender_code) ==
    <<Get(input_data, "credit_score"), gender_code, Get(input_data, "tenure"),
      Get(input_data, "age"), Get(input_data, "balance"),
      Get(input_data, "num_of_products"), Get(input_data, "has_cr_card"),
      Get(input_data, "is_active_member"), Get(input_data, "estimated_salary")>>

\* The nine columns of the first DataFrame, in the order of the dict literal.
DataFrame(input_data, gender_code) ==
    <<Get(input_data, "credit_score"), gender_code, Get(input_data, "age"),
      Get(input_data, "tenure"), Get(input_data, "balance"),
      Get(input_data, "num_of_products"), Get(input_data, "has_cr_card"),
      Get(input_data, "is_active_member"), Get(input_data, "estimated_salary")>>

\* pd.concat([df, geo_encoded_df], axis=1)
concat(df, geo_encoded_df) == df \o geo_encoded_df

\* Mutant: the output clamped into 0..1.
to_probability_clamped(prediction) ==
    IF prediction[1][1] < 0 THEN 0
    ELSE IF prediction[1][1] > 10 THEN 10
    ELSE prediction[1][1]

\* float(prediction[0][0])
to_probability(prediction) == prediction[1][1]

\* Mutant: a comparison that is not strict.
decide_ge(probability) == probability >= CHURN_THRESHOLD

\* will_churn = probability > 0.5
decide(probability) == probability > CHURN_THRESHOLD

\* Mutant: an exception handler that drops the scaler of the loader.
Raised_reset(self, error, row, scalerCalls, modelCalls) ==
    [status |-> "raised", error |-> error, probability |-> 0, will_churn |-> FALSE,
     row |-> row, fv |-> <<>>, scalerCalls |-> scalerCalls, modelCalls |-> modelCalls,
     self |-> [self EXCEPT !.scaler = [mean_ |-> <<>>, scale_ |-> <<>>]]]

\* except Exception: the error is logged and raised again.
Raised(self, error, row, scalerCalls, modelCalls) ==
    [status |-> "raised", error |-> error, probability |-> 0, will_churn |-> FALSE,
     row |-> row, fv |-> <<>>, scalerCalls |-> scalerCalls, modelCalls |-> modelCalls,
     self |-> self]

\* One call of predict on the loader self: what it returns or raises, the row
\* it handed to the scaler, the scaled row, how often it invoked the scaler
\* and the network, and the loader as the call leaves it.
predict(self, input_data) ==
    LET gender == label_transform(self.label_encoder_gender, Get(input_data, "gender"))
    IN  IF ~gender.ok THEN Raised(self, "gender", <<>>, 0, 0)
        ELSE
    LET geo_encoded == onehot_transform(self.one_hot_encoder, Get(input_data, "geography"))
    IN  IF ~geo_encoded.ok THEN Raised(self, "geography", <<>>, 0, 0)
        ELSE
    LET df == concat(DataFrame(input_data, gender.v), geo_encoded.v)
        df_scaled == scaler_transform(self.scaler, df)
    IN  IF ~df_scaled.ok THEN Raised(self, "scaler", df, 1, 0)
        ELSE
    LET prediction == model_predict(self.model, df_scaled.v)
    IN  IF ~prediction.ok THEN Raised(self, "model", df, 1, 1)
        ELSE
    LET probability == to_probability(prediction.v)
    IN  [status |-> "returned", error |-> "", probability |-> probability,
         will_churn |-> decide(probability), row |-> df, fv |-> df_scaled.v,
         scalerCalls |-> 1, modelCalls |-> 1, self |-> self]


\* ------------------------------------------------- ModelLoader construction

RECURSIVE FirstMissing(_, _)
\* The position in LoadOrder of the first file that cannot be read, from i on;
\* Len(LoadOrder) + 1 when every file can.
FirstMissing(present, i) ==
    IF i > Len(LoadOrder) THEN i
    ELSE IF LoadOrder[i] \notin present THEN i
    ELSE FirstMissing(present, i + 1)

\* Mutant: a handler that logs the exception and does not raise it again.
load_all_swallow(d) ==
    [ok |-> TRUE, self |-> d.content,
     opened |-> {LoadOrder[i] : i \in 1..(FirstMissing(d.present, 1) - 1)}]

\* ModelLoader(): __init__ and _load_all.  The files are opened in LoadOrder;
\* the first that cannot be read raises, and the exception leaves __init__, so
\* no object comes back.  opened: the files read by this construction.
load_all(d) ==
    LET stop == FirstMissing(d.present, 1)
    IN  [ok |-> stop > Len(LoadOrder),
         self |-> d.content,
         opened |-> {LoadOrder[i] : i \in 1..(stop - 1)}]

\* -------------------------------------------------------------------- state

NoCall ==
    [caller |-> 0, status |-> "none", error |-> "", probability |-> 0,
     will_churn |-> FALSE, row |-> <<>>, fv |-> <<>>, scalerCalls |-> 0,
     modelCalls |-> 0, input |-> [keys |-> AppKeys, val |-> Record("France", "Male", 40)],
     prev |-> "none", known |-> FALSE]

InitWith(callerSets, bundles) ==
    /\ disk \in [present : SUBSET Paths, content : bundles]
    /\ active \in callerSets
    /\ heap = <<>>
    /\ model_loader = 0
    /\ cache_resource = 0
    /\ compute_lock = 0
    /\ pc = [c \in Callers |-> "idle"]
    /\ via = [c \in Callers |-> "lib"]
    /\ local = [c \in Callers |-> 0]
    /\ held = [c \in Callers |-> 0]
    /\ ui = [c \in Callers |-> "none"]
    /\ reads = [p \in Paths |-> 0]
    /\ loads = 0
    /\ history = <<>>
    /\ lastCall = NoCall
    /\ calls = 0

\* One caller: calls follow one another.
Init == InitWith({{1}}, Bundles)

\* One or two callers in the same process.
InitConc == InitWith({{1}, {1, 2}}, ConcBundles)

AtRest(c) == pc[c] \in {"idle", "ready", "failed"}

\* ------------------------------------------------------------------ actions

\* app.load_model, as main() calls it at the start of a script run.  A value in
\* the resource cache is returned as it is; otherwise the function body runs,
\* one caller at a time, and calls get_model_loader.
load_model(c) ==
    /\ c \in active
    /\ AtRest(c)
    /\ via' = [via EXCEPT ![c] = "app"]
    /\ IF cache_resource # 0
       THEN /\ held' = [held EXCEPT ![c] = cache_resource]
            /\ pc' = [pc EXCEPT ![c] = "ready"]
            /\ ui' = [ui EXCEPT ![c] = "form"]
            /\ UNCHANGED compute_lock
       ELSE /\ compute_lock = 0
            /\ compute_lock' = c
            /\ pc' = [pc EXCEPT ![c] = "check"]
            /\ UNCHANGED <<held, ui>>
    /\ UNCHANGED <<disk, active, heap, model_loader, cache_resource, local, reads,
                   loads, history, lastCall, calls>>

\* Mutant: no test, an instance is constructed by every call.
IsNone_always(loader) == TRUE

\* The test of get_model_loader: is there an instance already?
IsNone(loader) == loader = 0

\* utils.get_model_loader up to its test of _model_loader: called by
\* load_model, or directly.
get_model_loader(c) ==
    /\ c \in active
    /\ \/ /\ pc[c] = "check"
          /\ UNCHANGED via
       \/ /\ AtRest(c)
          /\ via' = [via EXCEPT ![c] = "lib"]
    /\ pc' = [pc EXCEPT ![c] = IF IsNone(model_loader) THEN "construct" ELSE "return"]
    /\ UNCHANGED <<disk, active, heap, model_loader, cache_resource, compute_lock,
                   local, held, ui, reads, loads, history, lastCall, calls>>

\* ModelLoader() inside get_model_loader.  When it raises, the exception leaves
\* get_model_loader too; load_model catches it, shows it and stops the script.
ModelLoader_init(c) ==
    /\ pc[c] = "construct"
    /\ loads < MaxLoads
    /\ LET r == load_all(disk)
       IN  /\ loads' = loads + 1
           /\ reads' = [p \in Paths |-> IF p \in r.opened THEN reads[p] + 1 ELSE reads[p]]
           /\ IF r.ok
              THEN /\ heap' = Append(heap, r.self)
                   /\ local' = [local EXCEPT ![c] = Len(heap) + 1]
                   /\ pc' = [pc EXCEPT ![c] = "assign"]
                   /\ UNCHANGED <<ui, compute_lock>>
              ELSE /\ pc' = [pc EXCEPT ![c] = "failed"]
                   /\ ui' = [ui EXCEPT ![c] = IF via[c] = "app" THEN "load_error" ELSE @]
                   /\ compute_lock' = IF via[c] = "app" THEN 0 ELSE compute_lock
                   /\ UNCHANGED <<heap, local>>
    /\ UNCHANGED <<disk, active, model_loader, cache_resource, via, held, 
                   history, lastCall, calls>>

\* Mutant: the global statement forgotten, the store goes to a local name.
assign_local(c) ==
    /\ pc[c] = "assign"
    /\ pc' = [pc EXCEPT ![c] = "return"]
    /\ UNCHANGED <<disk, active, heap, model_loader, cache_resource, compute_lock, via,
                   local, held, ui, reads, loads, history, lastCall, calls>>

\* _model_loader = ModelLoader(): the store into the global.
assign(c) ==
    /\ pc[c] = "assign"
    /\ model_loader' = local[c]
    /\ pc' = [pc EXCEPT ![c] = "return"]
    /\ UNCHANGED <<disk, active, heap, cache_resource, compute_lock, via, local, held,
                   ui, reads, loads, history, lastCall, calls>>

\* return _model_loader: the global is read again.  In load_model the value is
\* put into the resource cache, and main() goes on to draw the form.
return(c) ==
    /\ pc[c] = "return"
    /\ held' = [held EXCEPT ![c] = model_loader]
    /\ pc' = [pc EXCEPT ![c] = "ready"]
    /\ IF via[c] = "app"
       THEN /\ cache_resource' = model_loader
            /\ compute_lock' = 0
            /\ ui' = [ui EXCEPT ![c] = "form"]
       ELSE UNCHANGED <<cache_resource, compute_lock, ui>>
    /\ UNCHANGED <<disk, active, heap, model_loader, via, local, reads, loads,
                   history, lastCall, calls>>

\* model_loader.predict(input_data), by the direct caller or under the Predict
\* button of main(), which shows the result or the exception and goes on.
Predict(c) ==
    /\ pc[c] = "ready"
    /\ held[c] # 0
    /\ calls < MaxCalls
    /\ \E input_data \in Inputs :
         LET r == predict(heap[held[c]], input_data)
             result == [fv |-> r.fv, probability |-> r.probability,
                        will_churn |-> r.will_churn]
         IN  /\ heap' = [heap EXCEPT ![held[c]] = r.self]
             /\ history' = IF r.status = "returned" /\ input_data.val \notin DOMAIN history
                           THEN history @@ (input_data.val :> result)
                           ELSE history
             /\ lastCall' = [caller |-> c, status |-> r.status, error |-> r.error,
                             probability |-> r.probability, will_churn |-> r.will_churn,
                             row |-> r.row, fv |-> r.fv, scalerCalls |-> r.scalerCalls,
                             modelCalls |-> r.modelCalls, input |-> input_data,
                             prev |-> lastCall.status,
                             known |-> input_data.val \in DOMAIN history]
             /\ ui' = [ui EXCEPT ![c] =
                         IF via[c] # "app" THEN @
                         ELSE IF r.status = "returned" THEN "result" ELSE "predict_error"]
    /\ calls' = calls + 1
    /\ UNCHANGED <<disk, active, model_loader, cache_resource, compute_lock, pc, via,
                   local, held, reads, loads>>

\* The steps of loading.
Load(c) ==
    \/ load_model(c)
    \/ get_model_loader(c)
    \/ ModelLoader_init(c)
    \/ assign(c)
    \/ return(c)

Next == \E c \in Callers : Load(c) \/ Predict(c)

\* One caller: loading and predicting, one call after the other.
Spec == Init /\ [][Next]_vars

NextConc == \E c \in Callers : Load(c)

\* One or two callers whose loading steps interleave.
SpecConc == InitConc /\ [][NextConc]_vars


\* ------------------------------------------------------------------- claims

Returned == lastCall.status = "returned"
FailedCall == lastCall.status = "raised"

\* The fitted category lists, as the files hold them.
FittedGenders == {disk.content.label_encoder_gender.classes_[i] :
                    i \in 1..Len(disk.content.label_encoder_gender.classes_)}
FittedGeographies == {disk.content.one_hot_encoder.categories_[i] :
                        i \in 1..Len(disk.content.one_hot_encoder.categories_)}
NumCategories == Len(disk.content.one_hot_encoder.categories_)

\* C1: whenever predict returns, will_churn is true exactly when the
\* probability is strictly above 0.5: false at 0.5 and below, true above,
\* whatever the record and the caller.
C1_StrictThreshold ==
    Returned =>
        /\ lastCall.probability > 5 => lastCall.will_churn = TRUE
        /\ lastCall.probability = 5 => lastCall.will_churn = FALSE
        /\ lastCall.probability < 5 => lastCall.will_churn = FALSE

\* C1 witness: predict has returned a probability of exactly 0.5.
C1_AtThreshold == Returned /\ lastCall.probability = 5 /\ ~lastCall.will_churn

\* C2 as claimed: whenever predict returns, the probability lies in [0,1].
C2_Original == Returned => (0 <= lastCall.probability /\ lastCall.probability <= 10)

\* C2 as amended: whenever predict returns, the probability is the network's
\* output for the scaled row, unchanged; it lies in [0,1] exactly when that
\* output does.
C2_PassThrough ==
    Returned =>
        LET out == model_predict(disk.content.model, lastCall.fv).v[1][1]
        IN  /\ lastCall.probability = out
            /\ (0 <= lastCall.probability /\ lastCall.probability <= 10)
                   <=> (0 <= out /\ out <= 10)

\* C2 witness: predict has returned 1.2 for a record within the fitted sets.
C2_OutOfRange ==
    /\ Returned
    /\ lastCall.probability = 12
    /\ lastCall.input.val.gender \in FittedGenders
    /\ lastCall.input.val.geography \in FittedGeographies

C4_LoadFailure ==
    disk.present # Paths =>
        /\ model_loader = 0
        /\ cache_resource = 0
        /\ heap = <<>>
        /\ calls = 0
        /\ lastCall.status = "none"
        /\ \A c \in active :
              /\ held[c] = 0
              /\ local[c] = 0
              /\ pc[c] \in {"idle", "check", "construct", "failed"}
              /\ (pc[c] = "failed" /\ via[c] = "app") => ui[c] = "load_error"
              /\ ui[c] \in {"none", "load_error"}

\* C4 witness: a script run has tried to load with a file missing.
C4_Stopped ==
    /\ disk.present # Paths
    /\ pc[1] = "failed"
    /\ via[1] = "app"
    /\ ui[1] = "load_error"
    /\ loads >= 1

C6_ColumnOrder ==
    lastCall.scalerCalls = 1 =>
        LET row == lastCall.row
            rec == lastCall.input.val
            classes == disk.content.label_encoder_gender.classes_
            cats == disk.content.one_hot_encoder.categories_
        IN  /\ Len(row) >= 9 + Len(cats)
            /\ row[1] = rec.credit_score
            /\ row[2] \in 0..(Len(classes) - 1)
            /\ classes[row[2] + 1] = rec.gender
            /\ row[3] = rec.age
            /\ row[4] = rec.tenure
            /\ row[5] = rec.balance
            /\ row[6] = rec.num_of_products
            /\ row[7] = rec.has_cr_card
            /\ row[8] = rec.is_active_member
            /\ row[9] = rec.estimated_salary
            /\ \A i \in 1..Len(cats) :
                  row[9 + i] = IF cats[i] = rec.geography THEN 1 ELSE 0

\* C6 witness: a row was built from a dict whose keys are not in the order of
\* the columns nor in the order the application writes them.
C6_OtherKeyOrder ==
    /\ lastCall.scalerCalls = 1
    /\ lastCall.input.keys = Reverse(AppKeys)
    /\ lastCall.input.val.geography = "Spain"
    /\ lastCall.input.val.age = AgeMin

\* C7 as claimed: the row handed to the scaler, and the scaled row, have
\* 8 + (number of fitted geographies) columns.
C7_Original ==
    /\ lastCall.scalerCalls = 1 => Len(lastCall.row) = 8 + NumCategories
    /\ Returned => Len(lastCall.fv) = 8 + NumCategories

\* C7 as amended: they have 9 + (number of fitted geographies) columns: the
\* eight numeric and boolean fields, the gender code, and the one-hot columns.
C7_Width ==
    /\ lastCall.scalerCalls = 1 => Len(lastCall.row) = 9 + NumCategories
    /\ Returned => Len(lastCall.fv) = 9 + NumCategories

\* C7 witness: predict has returned with three fitted geographies.
C7_Built == Returned /\ NumCategories = 3 /\ Len(lastCall.fv) = 12

\* C8: a predict call whose gender or geography is outside the fitted set
\* raises without invoking the scaler or the network; every call either
\* returns a probability the network can emit together with its decision, or
\* raises, leaves no result behind and has none shown by the application.
C8_NoPartialResult ==
    lastCall.status # "none" =>
        /\ lastCall.status \in {"returned", "raised"}
        /\ (lastCall.input.val.gender \notin FittedGenders
               \/ lastCall.input.val.geography \notin FittedGeographies) =>
              /\ FailedCall
              /\ lastCall.error \in {"gender", "geography"}
              /\ lastCall.scalerCalls = 0
              /\ lastCall.modelCalls = 0
        /\ Returned =>
              /\ lastCall.error = ""
              /\ \E i \in 1..Len(Outputs) : lastCall.probability = Outputs[i]
              /\ lastCall.will_churn \in BOOLEAN
              /\ lastCall.scalerCalls = 1 /\ lastCall.modelCalls = 1
        /\ FailedCall =>
              /\ lastCall.error # ""
              /\ lastCall.fv = <<>>
              /\ lastCall.input.val \notin DOMAIN history
              /\ via[lastCall.caller] = "app" => ui[lastCall.caller] # "result"

\* C8 witness: a call with a geography outside the fitted set has raised.
C8_UnseenGeography ==
    /\ FailedCall
    /\ lastCall.error = "geography"
    /\ lastCall.input.val.geography = "Italy"
    /\ lastCall.input.val.gender \in FittedGenders

\* C9: each caller constructs at most one ModelLoader, so a single caller
\* never constructs two, and two loaders exist only when every file was read
\* twice; callers that hold different loaders are two callers.
C9_OnePerCaller ==
    /\ Len(heap) <= Cardinality(active)
    /\ Cardinality(active) = 1 => Len(heap) <= 1
    /\ Len(heap) = 2 => \A p \in Paths : reads[p] = 2
    /\ \A c, d \in active :
          (held[c] # 0 /\ held[d] # 0 /\ held[c] # held[d]) =>
              (Len(heap) = 2 /\ Cardinality(active) = 2)

\* C9 witness: two callers both found no instance, both constructed one, and
\* hold different instances.
C9_Race ==
    /\ active = {1, 2}
    /\ Len(heap) = 2
    /\ pc[1] = "ready" /\ pc[2] = "ready"
    /\ held[1] # 0 /\ held[2] # 0 /\ held[1] # held[2]
    /\ \A p \in Paths : reads[p] = 2

\* C10: a predict call invokes the scaler and the network at most once; a call
\* that raises changes neither the loaders nor the global nor the caller's
\* position, and the application shows the error and goes on; a call that
\* returns after a call that raised returns what a loader fresh from the files
\* returns for the record.
C10_NoRetry ==
    /\ [](/\ lastCall.scalerCalls <= 1
          /\ lastCall.modelCalls <= 1
          /\ (lastCall.prev = "raised" /\ Returned) =>
                LET fresh == predict(disk.content, lastCall.input)
                IN  /\ fresh.status = "returned"
                    /\ fresh.fv = lastCall.fv
                    /\ fresh.probability = lastCall.probability
                    /\ fresh.will_churn = lastCall.will_churn)
    /\ [][(calls' = calls + 1 /\ lastCall'.status = "raised") =>
              /\ heap' = heap
              /\ model_loader' = model_loader
              /\ cache_resource' = cache_resource
              /\ history' = history
              /\ held' = held
              /\ pc' = pc
              /\ pc'[lastCall'.caller] = "ready"
              /\ via[lastCall'.caller] = "app" => ui'[lastCall'.caller] = "predict_error"]_vars

\* C10 witness: in the application a call has raised and the next call, with
\* a record within the fitted sets, has returned and is shown.
C10_NewAttempt ==
    /\ lastCall.prev = "raised"
    /\ Returned
    /\ via[1] = "app"
    /\ ui[1] = "result"

====
